---- MODULE Spec2Model ----
(***************************************************************************)
(* The unbound plugin of CoreDNS: configuration parsing (setup.go) and the *)
(* per-query handler ServeDNS (unbound.go).                                *)
(*                                                                         *)
(* Domain names are sequences of characters in presentation format, fully  *)
(* qualified ("a.c." is <<"a", ".", "c", ".">>).  The resolution engine    *)
(* (libunbound), the next handler of the chain and the metrics sink are    *)
(* collaborators: what they return is a nondeterministic input.            *)
(***************************************************************************)
EXTENDS Integers, Sequences, FiniteSets, TLC

\* ------------------------------------------------------------------ bounds
\* Longest additional section of an engine answer.
MaxExtra == 2
\* Most directives read inside one unbound block.
MaxDirectives == 2

\* ------------------------------------------------------- program constants
\* dns.RcodeSuccess, dns.RcodeServerFailure (the codes ServeDNS returns).
RcodeSuccess == 0
RcodeServerFailure == 2

\* ------------------------------------------------------------ domain names
Root == <<".">>
NameC == <<"c", ".">>
NameAC == <<"a", ".", "c", ".">>
NameBAC == <<"b", "a", ".", "c", ".">>
NameXAC == <<"x", ".", "a", ".", "c", ".">>

\* The names queries ask for, as request.Request.Name() gives them.
QueryNames == {NameC, NameAC, NameBAC, NameXAC}

\* The labels of a fully qualified name, leftmost first: "x.a.c." gives
\* <<<<"x">>, <<"a">>, <<"c">>>> and "." gives <<>>.
RECURSIVE SplitLabels(_, _)
SplitLabels(name, cur) ==
    IF name = <<>> THEN <<>>
    ELSE IF Head(name) = "."
         THEN (IF cur = <<>> THEN <<>> ELSE <<cur>>) \o SplitLabels(Tail(name), <<>>)
         ELSE SplitLabels(Tail(name), Append(cur, Head(name)))

Labels(name) == SplitLabels(name, <<>>)

\* The number of labels two names share, counted from the right.
RECURSIVE CommonRight(_, _)
CommonRight(a, b) ==
    IF a = <<>> \/ b = <<>> THEN 0
    ELSE IF a[Len(a)] = b[Len(b)]
         THEN 1 + CommonRight(SubSeq(a, 1, Len(a) - 1), SubSeq(b, 1, Len(b) - 1))
         ELSE 0

\* child is parent or a subdomain of it, compared label by label.
IsSubDomain(parent, child) ==
    CommonRight(Labels(parent), Labels(child)) = Len(Labels(parent))

\* Some entry of the list has the name at or below it (first match decides).
RECURSIVE AnyZoneMatches(_, _)
AnyZoneMatches(zones, name) ==
    IF zones = <<>> THEN FALSE
    ELSE IF IsSubDomain(Head(zones), name) THEN TRUE
         ELSE AnyZoneMatches(Tail(zones), name)

\* u.match(state): the name is under an included zone and under no excluded one.
Match(fromZ, exceptZ, name) ==
    IF AnyZoneMatches(exceptZ, name) THEN FALSE
    ELSE AnyZoneMatches(fromZ, name)

\* ----------------------------------------------------------- configuration
\* Host tokens as written in the Corefile: "a.c", "C", "x.a.c.", "ba.c", "."
\* and "".
TokAC == <<"a", ".", "c">>
TokUpperC == <<"C">>
TokXAC == <<"x", ".", "a", ".", "c", ".">>
TokBAC == <<"b", "a", ".", "c">>
TokRoot == <<".">>
TokEmpty == <<>>

LowerChar(ch) == IF ch = "A" THEN "a" ELSE IF ch = "C" THEN "c" ELSE ch

ToLower(s) == [i \in 1..Len(s) |-> LowerChar(s[i])]

Fqdn(s) == IF s # <<>> /\ s[Len(s)] = "." THEN s ELSE Append(s, ".")

\* plugin.Host(h).NormalizeExact(): the lower-cased absolute names of a host
\* token, none when the token is no domain name.
NormalizeExact(h) == IF h = <<>> THEN <<>> ELSE <<ToLower(Fqdn(h))>>

\* normalizeHost: the single non-empty normalized name, or an error.
NormalizeHostOk(h) ==
    /\ Len(NormalizeExact(h)) = 1
    /\ Len(NormalizeExact(h)[1]) > 0

NormalizeHost(h) == NormalizeExact(h)[1]

\* The argument lists a directive may carry.
FromArgChoices == {<<>>, <<TokUpperC>>, <<TokXAC, TokAC>>, <<TokAC, TokEmpty>>}
ServerBlockKeyChoices == {<<TokRoot>>}
ExceptArgChoices == {<<>>, <<TokAC>>, <<TokBAC, TokAC>>, <<TokXAC, TokEmpty>>}
OptionArgChoices == {<<"verbosity", "1">>, <<"verbosity">>}
FileArgChoices == {<<"file">>, <<>>}

\* An option key as libunbound expects it: the key followed by ":".
WithColon(k) == <<k, ":">>

\* A resolver context (one libunbound handle).
\* rejected records that the handle has refused a setting.
NewContext ==
    [opts |-> {}, cfg |-> {}, ta |-> {}, destroyed |-> FALSE, rejected |-> FALSE]

CtxSetOption(c, k, v) ==
    [c EXCEPT !.opts = {p \in c.opts : p[1] # k} \cup {<<k, v>>}]

CtxConfig(c, f) == [c EXCEPT !.cfg = c.cfg \cup {f}]

CtxAddTaFile(c, f) == [c EXCEPT !.ta = c.ta \cup {f}]

\* The handle returned an error and is left as it was.
CtxReject(c) == [c EXCEPT !.rejected = TRUE]

\* The options every instance starts with.
DefaultOptions == {<<"msg-cache-size", "0">>, <<"rrset-cache-size", "0">>}

\* setOption on both handles: ru and rt say whether the engine accepted the
\* option on the UDP and on the TCP handle.
SetOptionBoth(cx, k, v, ru, rt) ==
    [udp |-> IF ru THEN CtxSetOption(cx.udp, WithColon(k), v) ELSE CtxReject(cx.udp),
     tcp |-> IF rt THEN CtxSetOption(cx.tcp, WithColon(k), v) ELSE CtxReject(cx.tcp)]

\* setOption's result: only the TCP handle's error is returned.
SetOptionOk(ru, rt) == rt

RECURSIVE ApplyDefaults(_, _)
ApplyDefaults(cx, todo) ==
    IF todo = {} THEN cx
    ELSE LET o == CHOOSE x \in todo : TRUE
         IN ApplyDefaults(SetOptionBoth(cx, o[1], o[2], TRUE, TRUE), todo \ {o})

\* New(): two handles, TCP upstream forced on the second, defaults on both.
NewPlugin ==
    ApplyDefaults([udp |-> NewContext,
                   tcp |-> CtxSetOption(NewContext, <<"tcp-upstream", ":">>, "yes")],
                  DefaultOptions)

\* The errors unboundParse returns.  subject is what the message names (the
\* option key as given to the engine, the file, the kind of zone), value the
\* option's value, on the handle the message names, cause the engine's error.
ParseError(kind, subject, value, on, cause) ==
    [kind |-> kind, subject |-> subject, value |-> value, on |-> on, cause |-> cause]

NoParseError == ParseError("", <<>>, "", "", "")

\* c.ArgErr(), plugin.ErrOnce and normalizeHost's error.
PlainError(kind, subject) == ParseError(kind, subject, "", "", "")

\* The errors the engine gives for a refused option or file.
EngineCauses == {"syntax error", "out of memory"}

\* An option error that leaves the engine's error out.
SetOptionErrorWithoutCause(k, v, cause) ==
    ParseError("option", WithColon(k), v, "", "")

\* setOption's error: the key, the value and the TCP handle's error.
SetOptionError(k, v, cause) == ParseError("option", WithColon(k), v, "", cause)

\* config's and setAnchor's errors: the file, the handle and its error.
ConfigError(f, on, cause) == ParseError("config", <<f>>, "", on, cause)

SetAnchorError(f, on, cause) == ParseError("anchor", <<f>>, "", on, cause)

\* The handle whose error config and setAnchor return.
FailedHandle(ru, rt) == IF ~ru THEN "UDP" ELSE "TCP"

\* ------------------------------------------------------------------- errors
NilErr == [isnil |-> TRUE, msg |-> ""]
Err(m) == [isnil |-> FALSE, msg |-> m]

\* ----------------------------------------------------------------- messages
\* Record types of the model: an address record, the EDNS0 pseudo-record and
\* two DNSSEC-only types.
RRKinds == {"A", "OPT", "RRSIG"}

SeqsUpTo(S, n) == UNION {[1..k -> S] : k \in 0..n}

AnswerSections == {<<"A">>, <<"A", "RRSIG">>}
NsSections == {<<>>, <<"NSEC">>}
ExtraSections == SeqsUpTo(RRKinds, MaxExtra)

\* The response codes an engine answer may carry (12 has no mnemonic).
EmbeddedRcodes == {RcodeSuccess, RcodeServerFailure, 12}

\* The transaction identifiers of queries; the engine's own answers carry 0.
QueryIds == {1, 2}

Packet(id, rcode, question, answer, ns, extra) ==
    [id |-> id, rcode |-> rcode, question |-> question,
     answer |-> answer, ns |-> ns, extra |-> extra]

NoPacket == Packet(0, RcodeSuccess, FALSE, <<>>, <<>>, <<>>)

\* Every answer packet within the bounds.
AllPackets ==
    {Packet(0, rc, qn, an, ns, ex) :
        rc \in EmbeddedRcodes, qn \in BOOLEAN,
        an \in AnswerSections, ns \in NsSections, ex \in ExtraSections}

\* The packets the full life cycle is explored with: a signed answer with as
\* many OPT records as fit.
LifecyclePackets ==
    {Packet(0, rc, qn, sec[1], sec[2], sec[3]) :
        rc \in EmbeddedRcodes, qn \in BOOLEAN,
        sec \in {<<<<"A", "RRSIG">>, <<"NSEC">>, [i \in 1..MaxExtra |-> "OPT"]>>}}

\* What Resolve hands back: (*Result, error).  On an error the result pointer
\* may be nil, and a result that comes with an error carries no answer.
Outcome(err, resnil, pkt, bogus, why) ==
    [err |-> err, resnil |-> resnil, pkt |-> pkt, rtt |-> 7,
     bogus |-> bogus, why |-> why]

NoOutcome == Outcome(NilErr, TRUE, NoPacket, FALSE, "")

EngineErrors == {Err("ub_resolve: syntax error")}

OutcomesOver(packets) ==
    {Outcome(NilErr, FALSE, p, FALSE, "") : p \in packets}
    \cup {Outcome(NilErr, FALSE, p, TRUE, "signature expired") : p \in packets}
    \cup {Outcome(e, TRUE, NoPacket, FALSE, "") : e \in EngineErrors}
    \cup {Outcome(e, FALSE, NoPacket, FALSE, "") : e \in EngineErrors}

\* ------------------------------------------------------------------ queries
Query(name, proto, do, id) == [name |-> name, proto |-> proto, do |-> do, id |-> id]

NoQuery == Query(<<>>, "", FALSE, 0)

Queries ==
    {Query(n, p, d, i) :
        n \in QueryNames, p \in {"udp", "tcp"}, d \in BOOLEAN, i \in QueryIds}

\* The queries the full life cycle is explored with.
LifecycleQueries == {q \in Queries : q.id = 1}

\* What a handler returns: (response code, error).
Return(code, err) == [code |-> code, err |-> err]

NoReturn == Return(-1, NilErr)

\* What the next handler of the chain may return.
NextResults ==
    {Return(RcodeSuccess, NilErr),
     Return(RcodeServerFailure, Err("next failed")),
     Return(3, NilErr)}

\* ---------------------------------------------------------------- variables
\* The handler slots (one goroutine each).
Tasks == {1, 2}

VARIABLES
    phase,      \* "start", "block", "blockend", "failed", "serving", "stopped"
    from,       \* u.from
    except,     \* u.except
    strict,     \* u.strict
    ctx,        \* u.u and u.t: [udp |-> context, tcp |-> context]
    ndir,       \* directives read in the block so far (0 once parsing is over)
    perr,       \* the error unboundParse returned (NoParseError when none)
    hasNext,    \* u.Next is not nil
    pc,         \* per task: "idle", "next", "resolving", "done", "panicked"
    query,      \* per task: the query being served
    res,        \* per task: what Resolve returned
    ret,        \* per task: what ServeDNS returned
    written,    \* per task: the messages this handler wrote with w.WriteMsg
    rcodeInc,   \* per task: the labels of its RcodeCount increments
    durObs,     \* per task: the values of its RequestDuration observations
    resolves,   \* per task: the contexts it called Resolve on
    nextCalls,  \* per task: how often it called the next handler
    nextRet,    \* per task: what the next handler returned to it
    stage,      \* per instance of the process: "none", "setup", "started"
    sink,       \* per instance: its server block has the prometheus handler
    onceDone,   \* the process-wide once has run its function
    registered  \* the collectors given to MustRegister, in order

confVars == <<phase, from, except, strict, ctx, ndir, perr, hasNext>>
taskVars == <<pc, query, res, ret, written, rcodeInc, durObs, resolves, nextCalls,
              nextRet>>
metricVars == <<stage, sink, onceDone, registered>>
vars == <<phase, from, except, strict, ctx, ndir, perr, hasNext,
          pc, query, res, ret, written, rcodeInc, durObs, resolves, nextCalls,
          nextRet, stage, sink, onceDone, registered>>

IdleTasks ==
    /\ pc = [t \in Tasks |-> "idle"]
    /\ query = [t \in Tasks |-> NoQuery]
    /\ res = [t \in Tasks |-> NoOutcome]
    /\ ret = [t \in Tasks |-> NoReturn]
    /\ written = [t \in Tasks |-> <<>>]
    /\ rcodeInc = [t \in Tasks |-> <<>>]
    /\ durObs = [t \in Tasks |-> <<>>]
    /\ resolves = [t \in Tasks |-> <<>>]
    /\ nextCalls = [t \in Tasks |-> 0]
    /\ nextRet = [t \in Tasks |-> NoReturn]

\* The instances the process constructs, one per server block using the plugin.
Instances == {1, 2, 3}

\* No instance has been set up and nothing is registered.
NoMetrics ==
    /\ stage = [i \in Instances |-> "none"]
    /\ sink = [i \in Instances |-> FALSE]
    /\ onceDone = FALSE
    /\ registered = <<>>

\* The state when unboundParse has called New() and not yet c.Next().
Init ==
    /\ phase = "start"
    /\ from = <<>>
    /\ except = <<>>
    /\ strict = FALSE
    /\ ctx = NewPlugin
    /\ ndir = 0
    /\ perr = NoParseError
    /\ hasNext = FALSE
    /\ IdleTasks
    /\ NoMetrics

\* ------------------------------------------------------------- unboundParse
AllNormalizable(args) == \A i \in 1..Len(args) : NormalizeHostOk(args[i])

NormalizeAll(args) == [i \in 1..Len(args) |-> NormalizeHost(args[i])]

\* config on both handles: the TCP handle is tried only after the UDP handle
\* accepted the file.
ConfigBoth(cx, f, ru, rt) ==
    [udp |-> IF ru THEN CtxConfig(cx.udp, f) ELSE CtxReject(cx.udp),
     tcp |-> IF ~ru THEN cx.tcp
             ELSE IF rt THEN CtxConfig(cx.tcp, f) ELSE CtxReject(cx.tcp)]

ConfigOk(ru, rt) == ru /\ rt

\* setAnchor on both handles, in the same order.
SetAnchorBoth(cx, f, ru, rt) ==
    [udp |-> IF ru THEN CtxAddTaFile(cx.udp, f) ELSE CtxReject(cx.udp),
     tcp |-> IF ~ru THEN cx.tcp
             ELSE IF rt THEN CtxAddTaFile(cx.tcp, f) ELSE CtxReject(cx.tcp)]

SetAnchorOk(ru, rt) == ru /\ rt

\* unboundParse returns (nil, err): the instance is dropped.
ParseFails(why) ==
    /\ phase' = "failed"
    /\ perr' = why

\* The first c.Next(): the zones after the directive name, or the server
\* block's keys when there are none, each normalized.
ParseFrom ==
    \E args \in FromArgChoices, keys \in ServerBlockKeyChoices :
        LET raw == IF Len(args) = 0 THEN keys ELSE args
        IN /\ phase = "start"
           /\ IF AllNormalizable(raw)
              THEN /\ from' = NormalizeAll(raw)
                   /\ phase' = "block"
                   /\ perr' = perr
              ELSE /\ ParseFails(PlainError("normalize", <<"from">>))
                   /\ from' = from
           /\ UNCHANGED <<except, strict, ctx, ndir, hasNext, taskVars, metricVars>>

InBlock ==
    /\ phase = "block"
    /\ ndir < MaxDirectives
    /\ ndir' = ndir + 1

ParseExcept ==
    \E args \in ExceptArgChoices :
        /\ InBlock
        /\ IF Len(args) = 0
           THEN ParseFails(PlainError("ArgErr", <<>>)) /\ except' = except
           ELSE IF AllNormalizable(args)
                THEN /\ except' = NormalizeAll(args)
                     /\ UNCHANGED <<phase, perr>>
                ELSE ParseFails(PlainError("normalize", <<"except">>)) /\ except' = except
        /\ UNCHANGED <<from, strict, ctx, hasNext, taskVars, metricVars>>

ParseOption ==
    \E args \in OptionArgChoices, ru \in BOOLEAN, rt \in BOOLEAN,
       cause \in EngineCauses :
        /\ InBlock
        /\ IF Len(args) # 2
           THEN ParseFails(PlainError("ArgErr", <<>>)) /\ ctx' = ctx
           ELSE /\ ctx' = SetOptionBoth(ctx, args[1], args[2], ru, rt)
                /\ IF SetOptionOk(ru, rt)
                   THEN UNCHANGED <<phase, perr>>
                   ELSE ParseFails(SetOptionError(args[1], args[2], cause))
        /\ UNCHANGED <<from, except, strict, hasNext, taskVars, metricVars>>

ParseConfig ==
    \E args \in FileArgChoices, ru \in BOOLEAN, rt \in BOOLEAN,
       cause \in EngineCauses :
        /\ InBlock
        /\ IF Len(args) # 1
           THEN ParseFails(PlainError("ArgErr", <<>>)) /\ ctx' = ctx
           ELSE /\ ctx' = ConfigBoth(ctx, args[1], ru, rt)
                /\ IF ConfigOk(ru, rt)
                   THEN UNCHANGED <<phase, perr>>
                   ELSE ParseFails(ConfigError(args[1], FailedHandle(ru, rt), cause))
        /\ UNCHANGED <<from, except, strict, hasNext, taskVars, metricVars>>

ParseAnchor ==
    \E args \in FileArgChoices, ru \in BOOLEAN, rt \in BOOLEAN,
       cause \in EngineCauses :
        /\ InBlock
        /\ IF Len(args) # 1
           THEN ParseFails(PlainError("ArgErr", <<>>)) /\ UNCHANGED <<ctx, strict>>
           ELSE /\ ctx' = SetAnchorBoth(ctx, args[1], ru, rt)
                /\ IF SetAnchorOk(ru, rt)
                   THEN strict' = TRUE /\ UNCHANGED <<phase, perr>>
                   ELSE /\ ParseFails(SetAnchorError(args[1], FailedHandle(ru, rt), cause))
                        /\ strict' = strict
        /\ UNCHANGED <<from, except, hasNext, taskVars, metricVars>>

\* Any other word inside the block.
ParseUnknown ==
    /\ InBlock
    /\ ParseFails(PlainError("ArgErr", <<"unknown">>))
    /\ UNCHANGED <<from, except, strict, ctx, hasNext, taskVars, metricVars>>

\* c.NextBlock() is false: the block is closed.
ParseBlockEnd ==
    /\ phase = "block"
    /\ phase' = "blockend"
    /\ UNCHANGED <<from, except, strict, ctx, ndir, perr, hasNext, taskVars, metricVars>>

\* c.Next() is true again: a second unbound block.
ParseSecondBlock ==
    /\ phase = "blockend"
    /\ ParseFails(PlainError("ErrOnce", <<>>))
    /\ UNCHANGED <<from, except, strict, ctx, ndir, hasNext, taskVars, metricVars>>

\* c.Next() is false: unboundParse returns the instance and setup adds it to
\* the chain, with or without a handler after it.
Setup ==
    \E hn \in BOOLEAN :
        /\ phase = "blockend"
        /\ phase' = "serving"
        /\ hasNext' = hn
        /\ ndir' = 0
        /\ UNCHANGED <<from, except, strict, ctx, perr, taskVars, metricVars>>

\* Stop, the shutdown hook: both handles are destroyed.
Stop ==
    /\ phase = "serving"
    /\ phase' = "stopped"
    /\ ctx' = [udp |-> [ctx.udp EXCEPT !.destroyed = TRUE],
               tcp |-> [ctx.tcp EXCEPT !.destroyed = TRUE]]
    /\ UNCHANGED <<from, except, strict, ndir, perr, hasNext, taskVars, metricVars>>

\* ----------------------------------------------------------------- ServeDNS
\* A handler that forgot the negation of the match.
InterceptsInverted(fromZ, exceptZ, q) == ~Match(fromZ, exceptZ, q.name)

\* The handler takes the query itself when u.match says so.
Intercepts(fromZ, exceptZ, q) == Match(fromZ, exceptZ, q.name)

\* A delegation that wraps the next handler's error.
NextOrFailureWrapping(hn, r) ==
    IF hn THEN Return(r.code, IF r.err.isnil THEN NilErr ELSE Err("unbound: failed"))
    ELSE Return(RcodeServerFailure, Err("plugin/unbound: no next plugin found"))

\* plugin.NextOrFailure: the next handler's result, or a failure of its own
\* when there is no next handler.
NextOrFailure(hn, r) ==
    IF hn THEN r
    ELSE Return(RcodeServerFailure, Err("plugin/unbound: no next plugin found"))

\* Every query resolved on the UDP handle.
ContextForUdpOnly(proto) == "udp"

\* The handle a query is resolved on, by its transport.
ContextFor(proto) == IF proto = "tcp" THEN "tcp" ELSE "udp"

\* The response code the RcodeCount increment is labelled with.
CounterRcode(o) == IF o.err.isnil THEN o.pkt.rcode ELSE RcodeServerFailure

\* dns.RcodeToString[rcode], or the number in decimal when it has no mnemonic.
RcodeLabel(rc) ==
    IF rc = 0 THEN [name |-> "NOERROR", digits |-> <<>>]
    ELSE IF rc = 2 THEN [name |-> "SERVFAIL", digits |-> <<>>]
    ELSE IF rc = 3 THEN [name |-> "NXDOMAIN", digits |-> <<>>]
    ELSE [name |-> "", digits |-> IF rc < 10 THEN <<rc>> ELSE <<rc \div 10, rc % 10>>]

\* Checks that never reject a bogus answer.
VerdictIgnoringBogus(st, o) ==
    IF ~o.err.isnil \/ ~o.pkt.question
    THEN [send |-> FALSE, ret |-> Return(RcodeServerFailure, o.err)]
    ELSE [send |-> TRUE, ret |-> Return(RcodeSuccess, NilErr)]

\* Checks that reject a bogus answer with an error of their own wording.
VerdictGenericBogusError(st, o) ==
    IF ~o.err.isnil \/ ~o.pkt.question
    THEN [send |-> FALSE, ret |-> Return(RcodeServerFailure, o.err)]
    ELSE IF st /\ o.bogus
         THEN [send |-> FALSE, ret |-> Return(RcodeServerFailure, Err("bogus answer"))]
         ELSE [send |-> TRUE, ret |-> Return(RcodeSuccess, NilErr)]

\* Checks that reject a bogus answer whether strict is set or not.
VerdictAlwaysStrict(st, o) ==
    IF ~o.err.isnil \/ ~o.pkt.question
    THEN [send |-> FALSE, ret |-> Return(RcodeServerFailure, o.err)]
    ELSE IF o.bogus
         THEN [send |-> FALSE, ret |-> Return(RcodeServerFailure, Err(o.why))]
         ELSE [send |-> TRUE, ret |-> Return(RcodeSuccess, NilErr)]

\* A strict rejection that reports success without a write.
VerdictSuccessWithoutWrite(st, o) ==
    IF ~o.err.isnil \/ ~o.pkt.question
    THEN [send |-> FALSE, ret |-> Return(RcodeServerFailure, o.err)]
    ELSE IF st /\ o.bogus
         THEN [send |-> FALSE, ret |-> Return(RcodeSuccess, NilErr)]
         ELSE [send |-> TRUE, ret |-> Return(RcodeSuccess, NilErr)]

\* The checks between the metrics and the write: an engine error or an answer
\* without question section, then a bogus answer in strict mode.
Verdict(st, o) ==
    IF ~o.err.isnil \/ ~o.pkt.question
    THEN [send |-> FALSE, ret |-> Return(RcodeServerFailure, o.err)]
    ELSE IF st /\ o.bogus
         THEN [send |-> FALSE, ret |-> Return(RcodeServerFailure, Err(o.why))]
         ELSE [send |-> TRUE, ret |-> Return(RcodeSuccess, NilErr)]

\* An additional section left as it is.
StripNoOPT(extra) == extra

\* The additional section without its first OPT record.
RECURSIVE StripFirstOPT(_)
StripFirstOPT(extra) ==
    IF extra = <<>> THEN <<>>
    ELSE IF Head(extra) = "OPT" THEN Tail(extra)
         ELSE <<Head(extra)>> \o StripFirstOPT(Tail(extra))

\* dnssec(rr): the record is kept by the filter (it is no DNSSEC-only type).
KeptByDnssecFilter(rr) == rr \notin {"RRSIG", "NSEC"}

RECURSIVE FilterSection(_)
FilterSection(rrs) ==
    IF rrs = <<>> THEN <<>>
    ELSE IF KeptByDnssecFilter(Head(rrs))
         THEN <<Head(rrs)>> \o FilterSection(Tail(rrs))
         ELSE FilterSection(Tail(rrs))

\* filter(m, dnssec): every section without its DNSSEC-only records.
Filter(pkt) ==
    [pkt EXCEPT !.answer = FilterSection(pkt.answer),
                !.ns = FilterSection(pkt.ns),
                !.extra = FilterSection(pkt.extra)]

\* What is done to the answer of a query that did not set the DO bit.
StripForPlainClient(pkt) == Filter([pkt EXCEPT !.extra = StripFirstOPT(pkt.extra)])

\* A sanitizer that strips whatever the query asked for.
SanitizeAlwaysStripping(q, pkt) == [StripForPlainClient(pkt) EXCEPT !.id = q.id]

\* The message handed to w.WriteMsg.
Sanitize(q, pkt) ==
    [(IF ~q.do THEN StripForPlainClient(pkt) ELSE pkt) EXCEPT !.id = q.id]

\* The handler added to the chain before unboundParse has returned.
InChainDuringParse == phase \in {"block", "blockend", "serving"}

\* The handler is in the plugin chain: setup adds it once unboundParse has
\* returned the instance, and the server calls it until shutdown.
InChain == phase = "serving"

\* A query arrives: it goes to the next handler, or Resolve is called on the
\* handle of its transport.
Begin(t) ==
    \E q \in LifecycleQueries :
        /\ InChain
        /\ pc[t] \in {"idle", "done", "panicked"}
        /\ query' = [query EXCEPT ![t] = q]
        /\ res' = [res EXCEPT ![t] = NoOutcome]
        /\ written' = [written EXCEPT ![t] = <<>>]
        /\ rcodeInc' = [rcodeInc EXCEPT ![t] = <<>>]
        /\ durObs' = [durObs EXCEPT ![t] = <<>>]
        /\ nextRet' = [nextRet EXCEPT ![t] = NoReturn]
        /\ IF ~Intercepts(from, except, q)
           THEN /\ resolves' = [resolves EXCEPT ![t] = <<>>]
                /\ IF hasNext
                   THEN /\ pc' = [pc EXCEPT ![t] = "next"]
                        /\ nextCalls' = [nextCalls EXCEPT ![t] = 1]
                        /\ ret' = [ret EXCEPT ![t] = NoReturn]
                   ELSE /\ pc' = [pc EXCEPT ![t] = "done"]
                        /\ nextCalls' = [nextCalls EXCEPT ![t] = 0]
                        /\ ret' = [ret EXCEPT ![t] = NextOrFailure(FALSE, NoReturn)]
           ELSE /\ pc' = [pc EXCEPT ![t] = "resolving"]
                /\ resolves' = [resolves EXCEPT ![t] = <<ContextFor(q.proto)>>]
                /\ nextCalls' = [nextCalls EXCEPT ![t] = 0]
                /\ ret' = [ret EXCEPT ![t] = NoReturn]
        /\ UNCHANGED <<confVars, metricVars>>

\* The next handler returns and ServeDNS returns what it returned.
NextReturns(t) ==
    \E r \in NextResults :
        /\ pc[t] = "next"
        /\ pc' = [pc EXCEPT ![t] = "done"]
        /\ nextRet' = [nextRet EXCEPT ![t] = r]
        /\ ret' = [ret EXCEPT ![t] = NextOrFailure(hasNext, r)]
        /\ UNCHANGED <<confVars, metricVars, query, res, written, rcodeInc, durObs,
                       resolves, nextCalls>>

\* Resolve returns one of the outcomes and ServeDNS runs to its end: the
\* counter increment, the duration observation (which reads the result and
\* panics on a nil one), the checks, the sanitizing, the write, the return.
ResolveReturns(t, outcomes) ==
    \E o \in outcomes :
        LET v == Verdict(strict, o)
        IN /\ pc[t] = "resolving"
           /\ res' = [res EXCEPT ![t] = o]
           /\ rcodeInc' = [rcodeInc EXCEPT ![t] = Append(@, RcodeLabel(CounterRcode(o)))]
           /\ IF o.resnil
              THEN /\ pc' = [pc EXCEPT ![t] = "panicked"]
                   /\ UNCHANGED <<durObs, ret, written>>
              ELSE /\ pc' = [pc EXCEPT ![t] = "done"]
                   /\ durObs' = [durObs EXCEPT ![t] = Append(@, o.rtt)]
                   /\ ret' = [ret EXCEPT ![t] = v.ret]
                   /\ written' = [written EXCEPT ![t] =
                                    IF v.send THEN Append(@, Sanitize(query[t], o.pkt))
                                    ELSE @]
           /\ UNCHANGED <<confVars, metricVars, query, resolves, nextCalls, nextRet>>

\* ------------------------------------------------------------ specification
\* The life cycle of one instance, serving one query at a time.
Next ==
    \/ ParseFrom
    \/ ParseExcept
    \/ ParseOption
    \/ ParseConfig
    \/ ParseAnchor
    \/ ParseUnknown
    \/ ParseBlockEnd
    \/ ParseSecondBlock
    \/ Setup
    \/ Stop
    \/ Begin(1)
    \/ NextReturns(1)
    \/ ResolveReturns(1, OutcomesOver(LifecyclePackets))

Spec == Init /\ [][Next]_vars

\* The handler alone, on every answer within the bounds: an instance set up
\* for the root zone, with or without a trust anchor, has called Resolve for
\* a query, and Resolve returns.
InitSanitize ==
    /\ phase = "serving"
    /\ from = <<Root>>
    /\ except = <<>>
    /\ strict \in BOOLEAN
    /\ ctx = IF strict THEN SetAnchorBoth(NewPlugin, "file", TRUE, TRUE) ELSE NewPlugin
    /\ ndir = 0
    /\ perr = NoParseError
    /\ hasNext = FALSE
    /\ \E q \in {x \in Queries : x.name = NameAC} :
        /\ query = [t \in Tasks |-> IF t = 1 THEN q ELSE NoQuery]
        /\ resolves = [t \in Tasks |-> IF t = 1 THEN <<ContextFor(q.proto)>> ELSE <<>>]
    /\ pc = [t \in Tasks |-> IF t = 1 THEN "resolving" ELSE "idle"]
    /\ res = [t \in Tasks |-> NoOutcome]
    /\ ret = [t \in Tasks |-> NoReturn]
    /\ written = [t \in Tasks |-> <<>>]
    /\ rcodeInc = [t \in Tasks |-> <<>>]
    /\ durObs = [t \in Tasks |-> <<>>]
    /\ nextCalls = [t \in Tasks |-> 0]
    /\ nextRet = [t \in Tasks |-> NoReturn]
    /\ NoMetrics

NextSanitize == ResolveReturns(1, OutcomesOver(AllPackets))

SpecSanitize == InitSanitize /\ [][NextSanitize]_vars

\* =================================================================== claims
\* The query of task t went to the resolution engine.
SentToEngine(t) == resolves[t] # <<>>

\* The query of task t took the pass-through path.
PassedThrough(t) == pc[t] \in {"next", "done"} /\ resolves[t] = <<>>

\* Task t has a query that ServeDNS has routed.
Routed(t) == pc[t] # "idle"

\* Zone z is name n or an ancestor of it, read off the presentation format:
\* n ends with z, and what precedes z in n ends a label.
Covers(z, n) ==
    \/ z = Root
    \/ n = z
    \/ /\ Len(n) > Len(z)
       /\ SubSeq(n, Len(n) - Len(z) + 1, Len(n)) = z
       /\ n[Len(n) - Len(z)] = "."

\* n ends with the characters of z, at a label boundary or not.
RawSuffix(z, n) ==
    /\ Len(n) >= Len(z)
    /\ SubSeq(n, Len(n) - Len(z) + 1, Len(n)) = z

UnderIncluded(n) == \E i \in 1..Len(from) : Covers(from[i], n)
UnderExcluded(n) == \E i \in 1..Len(except) : Covers(except[i], n)

\* C1: a query goes to the resolution engine if and only if its name is at
\* or below an included zone and at or below no excluded zone, label by
\* label; otherwise it goes to the next handler.
C1_InScopeIff ==
    \A t \in Tasks :
        Routed(t) =>
            /\ SentToEngine(t) <=>
                   (UnderIncluded(query[t].name) /\ ~UnderExcluded(query[t].name))
            /\ ~SentToEngine(t) <=> PassedThrough(t)
            /\ PassedThrough(t) /\ hasNext => nextCalls[t] = 1

\* C1 witness: a name below an included zone and below an excluded one, with
\* a raw suffix that is an included zone at no label boundary, passed on.
C1_Witness ==
    /\ PassedThrough(1)
    /\ UnderIncluded(query[1].name)
    /\ UnderExcluded(query[1].name)
    /\ \E i \in 1..Len(except) :
           RawSuffix(except[i], query[1].name) /\ ~Covers(except[i], query[1].name)

\* C2: a query that is not in scope is handed to the next handler, whose
\* response code and error ServeDNS returns as they are; on this path no
\* Resolve is called, no message is written, and the query and both handles
\* stay as they were.
C2_PassThroughState ==
    \A t \in Tasks :
        PassedThrough(t) =>
            /\ resolves[t] = <<>>
            /\ written[t] = <<>>
            /\ res[t] = NoOutcome
            /\ pc[t] = "done" /\ hasNext => nextCalls[t] = 1 /\ ret[t] = nextRet[t]
            /\ pc[t] = "next" => hasNext /\ nextCalls[t] = 1

C2_PassThroughStep ==
    \A t \in Tasks :
        pc[t] = "next" /\ pc'[t] # "next" =>
            /\ pc'[t] = "done"
            /\ query'[t] = query[t]
            /\ ctx' = ctx

C2_PassThrough == []C2_PassThroughState /\ [][C2_PassThroughStep]_vars

\* C2 witness: the next handler returned a failure with an error and
\* ServeDNS returned the same.
C2_Witness ==
    /\ PassedThrough(1)
    /\ pc[1] = "done"
    /\ hasNext
    /\ ret[1] = Return(RcodeServerFailure, Err("next failed"))

\* ServeDNS of task t took the query and is over, by a return or by a panic.
Ended(t) == SentToEngine(t) /\ pc[t] \in {"done", "panicked"}

\* ServeDNS of task t took the query and returned.
Returned(t) == SentToEngine(t) /\ pc[t] = "done"

\* An anchor directive has loaded its file on both handles.
AnchorLoaded == ctx.udp.ta # {} /\ ctx.tcp.ta # {}

\* Resolve gave task t a result flagged bogus.
BogusOutcome(t) == ~res[t].resnil /\ res[t].bogus

\* Resolve gave task t an answer with a question section and no error.
CleanAnswer(t) == res[t].err.isnil /\ ~res[t].resnil /\ res[t].pkt.question

\* C3: once an anchor directive has loaded, every in-scope query whose
\* outcome is flagged bogus ends with server failure returned and nothing
\* written, whatever response code the answer carries.
C3_StrictBogusFails ==
    \A t \in Tasks :
        Ended(t) /\ AnchorLoaded /\ BogusOutcome(t) =>
            /\ pc[t] = "done"
            /\ ret[t].code = RcodeServerFailure
            /\ written[t] = <<>>

\* C3 witness: after an anchor directive, a bogus answer that carries
\* NOERROR, a question section and no engine error has been rejected.
C3_Witness ==
    /\ Returned(1)
    /\ AnchorLoaded
    /\ BogusOutcome(1)
    /\ CleanAnswer(1)
    /\ res[1].pkt.rcode = RcodeSuccess

C5_FailureWithError ==
    \A t \in Tasks :
        Ended(t) /\ ~CleanAnswer(t) =>
            /\ pc[t] = "done"
            /\ ret[t].code = RcodeServerFailure
            /\ ~ret[t].err.isnil
            /\ ~res[t].err.isnil => ret[t].err = res[t].err

\* C6: without a trust anchor a bogus flag changes nothing: an answer with a
\* question section and no error is written with its own response code, and
\* ServeDNS returns success.
C6_BogusNotEnforced ==
    \A t \in Tasks :
        Returned(t) /\ ~strict /\ CleanAnswer(t) =>
            /\ Len(written[t]) = 1
            /\ written[t][1].rcode = res[t].pkt.rcode
            /\ written[t][1].question
            /\ written[t][1] = Sanitize(query[t], res[t].pkt)
            /\ ret[t] = Return(RcodeSuccess, NilErr)

\* C6 witness: a bogus answer written to the requester of a non-strict
\* instance.
C6_Witness ==
    /\ Returned(1)
    /\ ~strict
    /\ ~AnchorLoaded
    /\ CleanAnswer(1)
    /\ BogusOutcome(1)
    /\ Len(written[1]) = 1

\* C7 as stated: a query that reached Resolve has made exactly one duration
\* observation and one counter increment when ServeDNS is over, and ServeDNS
\* returns; a pass-through query has made none.
C7_OneObservationEach ==
    \A t \in Tasks :
        /\ Ended(t) =>
              /\ pc[t] = "done"
              /\ Len(durObs[t]) = 1
              /\ Len(rcodeInc[t]) = 1
        /\ PassedThrough(t) => durObs[t] = <<>> /\ rcodeInc[t] = <<>>

\* C8 as stated: the counter increment of an in-scope query carries the
\* response code ServeDNS ends with: server failure whenever it returns
\* server failure, the answer's own code otherwise.
C8_LabelIsEffectiveCode ==
    \A t \in Tasks :
        Returned(t) =>
            rcodeInc[t] =
                <<RcodeLabel(IF ret[t].code = RcodeServerFailure
                             THEN RcodeServerFailure ELSE res[t].pkt.rcode)>>

\* The number of records of the given kinds in a section.
RECURSIVE CountKinds(_, _)
CountKinds(rrs, kinds) ==
    IF rrs = <<>> THEN 0
    ELSE (IF Head(rrs) \in kinds THEN 1 ELSE 0) + CountKinds(Tail(rrs), kinds)

DnssecOnlyKinds == {"RRSIG", "NSEC"}

CountInMessage(m, kinds) ==
    CountKinds(m.answer, kinds) + CountKinds(m.ns, kinds) + CountKinds(m.extra, kinds)

\* Task t wrote an answer for a query that did not set the DO bit.
WrotePlain(t) == Returned(t) /\ written[t] # <<>> /\ ~query[t].do

\* Task t wrote an answer for a query that set the DO bit.
WroteSigned(t) == Returned(t) /\ written[t] # <<>> /\ query[t].do

\* C9 as stated: the message written for a query without the capability
\* holds no OPT record and no DNSSEC-only record in any section, however many
\* OPT records the engine's answer held.
C9_NoOptNoDnssec ==
    \A t \in Tasks :
        WrotePlain(t) =>
            /\ CountInMessage(written[t][1], {"OPT"}) = 0
            /\ CountInMessage(written[t][1], DnssecOnlyKinds) = 0

\* C9 amended: the message written for a query without the capability holds
\* no DNSSEC-only record in any section, and its additional section holds
\* the engine's OPT records but the first: none when the engine's answer held
\* at most one.
C9_FirstOptOnly ==
    \A t \in Tasks :
        WrotePlain(t) =>
            LET had == CountKinds(res[t].pkt.extra, {"OPT"})
                has == CountKinds(written[t][1].extra, {"OPT"})
            IN /\ CountInMessage(written[t][1], DnssecOnlyKinds) = 0
               /\ has = IF had = 0 THEN 0 ELSE had - 1
               /\ had <= 1 => CountInMessage(written[t][1], {"OPT"}) = 0

\* C9 witness: an answer with an OPT record and signatures was written,
\* stripped, for a query without the capability.
C9_Witness ==
    /\ WrotePlain(1)
    /\ CountKinds(res[1].pkt.extra, {"OPT"}) = 1
    /\ CountInMessage(res[1].pkt, DnssecOnlyKinds) > 1
    /\ CountInMessage(written[1][1], {"OPT"}) = 0

\* C10: the message written for a query with the capability is the engine's
\* answer in every section and field but the identifier, and every written
\* message carries the identifier of its query.
C10_SignedUntouched ==
    \A t \in Tasks :
        written[t] # <<>> =>
            /\ Len(written[t]) = 1
            /\ written[t][1].id = query[t].id
            /\ WroteSigned(t) =>
                  /\ written[t][1].rcode = res[t].pkt.rcode
                  /\ written[t][1].question = res[t].pkt.question
                  /\ written[t][1].answer = res[t].pkt.answer
                  /\ written[t][1].ns = res[t].pkt.ns
                  /\ written[t][1].extra = res[t].pkt.extra

\* C10 witness: a signed answer with an OPT record, carrying an identifier
\* of the engine's, written for a query that set the DO bit.
C10_Witness ==
    /\ WroteSigned(1)
    /\ CountKinds(res[1].pkt.extra, {"OPT"}) > 0
    /\ CountInMessage(res[1].pkt, DnssecOnlyKinds) > 0
    /\ res[1].pkt.id # query[1].id
    /\ written[1][1].extra = res[1].pkt.extra

\* ---------------------------------------------------------------------- C11
\* The requester of task t's query has a reply: the message ServeDNS wrote, or
\* the failure code it returned for the server to answer with.
Replied(t) ==
    /\ pc[t] = "done"
    /\ \/ written[t] # <<>>
       \/ ret[t].code = RcodeServerFailure

\* C11: no query that was sent to the engine ends without a reply: whether the
\* engine answered, failed, gave no question section or gave a bogus answer
\* under strict validation, ServeDNS wrote a message or returned the
\* server-failure code.
C11_InScopeReplied == \A t \in Tasks : Ended(t) => Replied(t)

\* ---------------------------------------------------------------------- C12
\* The option New() forces on the TCP handle only.
TcpUpstream == <<WithColon("tcp-upstream"), "yes">>

\* Every directive read so far returned success.
ParsedSoFar == phase \in {"block", "blockend", "serving", "stopped"}

\* The two handles hold the same options, config files and trust anchors.
SameSettings ==
    /\ ctx.tcp.opts \ {TcpUpstream} = ctx.udp.opts \ {TcpUpstream}
    /\ ctx.tcp.cfg = ctx.udp.cfg
    /\ ctx.tcp.ta = ctx.udp.ta

\* C12: while every option, config and anchor application has returned
\* success, the UDP and the TCP handle hold the same options, config files and
\* trust anchors, apart from the upstream-over-TCP option of the TCP handle.
C12_HandlesAgree == ParsedSoFar => SameSettings

\* ---------------------------------------------------------------------- C13
\* unboundParse returned the error of an option, config or anchor application.
ApplicationFailed ==
    phase = "failed" /\ perr.kind \in {"option", "config", "anchor"}

\* C13: when the TCP handle has refused an option, a config file or a trust
\* anchor, construction has failed with an error that names the option (with
\* its value) or the file and carries the engine's error; what the UDP handle
\* accepted before is still set on it.
C13_TcpFailureReported ==
    ctx.tcp.rejected =>
        /\ ApplicationFailed
        /\ perr.cause \in EngineCauses
        /\ perr.kind = "option" =>
               /\ perr.subject = WithColon("verbosity")
               /\ perr.value = "1"
               /\ ~ctx.udp.rejected => <<perr.subject, perr.value>> \in ctx.udp.opts
        /\ perr.kind = "config" =>
               /\ perr.subject = <<"file">>
               /\ perr.on = "TCP"
               /\ "file" \in ctx.udp.cfg
        /\ perr.kind = "anchor" =>
               /\ perr.subject = <<"file">>
               /\ perr.on = "TCP"
               /\ "file" \in ctx.udp.ta

\* The UDP handle accepted an option that the TCP handle then refused.
C13_Witness ==
    /\ ApplicationFailed
    /\ perr.kind = "option"
    /\ ctx.tcp.rejected /\ ~ctx.udp.rejected
    /\ <<WithColon("verbosity"), "1">> \in ctx.udp.opts

\* ---------------------------------------------------------------------- C14
\* A handle has refused an option, a config file or a trust anchor.
SomeApplicationRefused == ctx.udp.rejected \/ ctx.tcp.rejected

\* C14: every configuration error fails construction: once a handle has
\* refused an option, config file or trust anchor, unboundParse has returned
\* an error; a failed construction carries its error and serves no query; so
\* no query is served by an instance one of whose handles refused a setting.
C14_ErrorsFailConstruction ==
    /\ SomeApplicationRefused => phase = "failed"
    /\ phase = "failed" =>
           /\ perr # NoParseError
           /\ \A t \in Tasks : ~Routed(t)
    /\ \A t \in Tasks : Routed(t) => ~SomeApplicationRefused

\* ---------------------------------------------------------------------- C15
ZoneSet(zs) == {zs[i] : i \in 1..Len(zs)}

\* C15: each except directive adds its zones to the excluded set: no step
\* removes a zone that an earlier except directive excluded.
C15_ExceptAccumulates == [][ZoneSet(except) \subseteq ZoneSet(except')]_vars

\* ---------------------------------------------------------------------- C16
BothDestroyed == ctx.udp.destroyed /\ ctx.tcp.destroyed

\* The instance will do nothing more: its construction failed or it was stopped.
LifetimeOver == phase \in {"failed", "stopped"}

\* C16: the two handles New() created are released by the shutdown hook and
\* that is the last thing done with them: an instance whose lifetime is over
\* has both handles destroyed, a handle is destroyed by Stop only, and no
\* Resolve is running on a destroyed handle.
C16_ReleasedOnceAndLast ==
    /\ LifetimeOver => BothDestroyed
    /\ (ctx.udp.destroyed \/ ctx.tcp.destroyed) => phase = "stopped" /\ BothDestroyed
    /\ \A t \in Tasks :
           pc[t] = "resolving" => ~ctx[resolves[t][1]].destroyed

\* ---------------------------------------------------------------------- C17
\* Two queries served at once by a constructed instance: ServeDNS runs in one
\* goroutine per query and takes no lock.
ConcurrentPackets == {Packet(0, RcodeSuccess, TRUE, <<"A">>, <<>>, <<>>)}

ConcurrentOutcomes == OutcomesOver(ConcurrentPackets)

InitConcurrent ==
    /\ phase = "serving"
    /\ from = <<NameAC>>
    /\ except = <<>>
    /\ strict = FALSE
    /\ ctx = NewPlugin
    /\ ndir = 0
    /\ perr = NoParseError
    /\ hasNext = FALSE
    /\ IdleTasks
    /\ NoMetrics

NextConcurrent ==
    \E t \in Tasks :
        \/ Begin(t)
        \/ ResolveReturns(t, ConcurrentOutcomes)

SpecConcurrent == InitConcurrent /\ [][NextConcurrent]_vars

\* C17: a query sent to the engine has had exactly one Resolve, on the handle
\* of its own transport; and while one query's Resolve is in progress, another
\* query can start, and a Resolve already running for another query can
\* return.
C17_OwnHandleNoBlocking ==
    /\ \A t \in Tasks :
           SentToEngine(t) =>
               /\ query[t].proto \in {"udp", "tcp"}
               /\ resolves[t] = <<query[t].proto>>
    /\ \A t \in Tasks, o \in Tasks :
           (t # o /\ pc[t] = "resolving") =>
               IF pc[o] = "resolving"
               THEN ENABLED ResolveReturns(o, ConcurrentOutcomes)
               ELSE ENABLED Begin(o)

\* A TCP query was answered while a UDP query's Resolve was in progress.
C17_Witness ==
    /\ pc[1] = "resolving" /\ resolves[1] = <<"udp">>
    /\ pc[2] = "done" /\ resolves[2] = <<"tcp">> /\ written[2] # <<>>

\* ---------------------------------------------------------------------- C18
\* What has been applied to a handle.
Settings(c) == <<c.opts, c.cfg, c.ta, c.rejected>>

Constructed == phase \in {"serving", "stopped"}

\* No query is routed before construction has ended.
C18_NoQueryWhileParsing == \A t \in Tasks : Routed(t) => Constructed

\* Once constructed, no step writes from, except or strict or applies an
\* option, a config file or a trust anchor to a handle.
C18_FrozenOnceConstructed ==
    Constructed =>
        /\ from' = from /\ except' = except /\ strict' = strict
        /\ Settings(ctx'.udp) = Settings(ctx.udp)
        /\ Settings(ctx'.tcp) = Settings(ctx.tcp)

\* C18: every write of from, except and strict and every option, config and
\* anchor application happens during construction, before the handler is in
\* the chain: no query is routed while unboundParse runs, and from the moment
\* the instance is constructed these fields and the handles' settings never
\* change.
C18_ConfigBeforeServing ==
    []C18_NoQueryWhileParsing /\ [][C18_FrozenOnceConstructed]_vars

\* A query answered by an instance that a block with an anchor and an except
\* directive configured.
C18_Witness ==
    /\ phase = "serving"
    /\ strict /\ AnchorLoaded /\ except # <<>>
    /\ Returned(1) /\ written[1] # <<>>

\* ---------------------------------------------------------------------- C19
ReturnedSuccess(t) == pc[t] = "done" /\ ret[t] = Return(RcodeSuccess, NilErr)

\* C19: for a query sent to the engine ServeDNS writes at most one message;
\* when it has written one it has returned (0, nil), and it has returned
\* (0, nil) only with one message written.
C19_WriteIffSuccess ==
    \A t \in Tasks :
        SentToEngine(t) =>
            /\ Len(written[t]) <= 1
            /\ written[t] # <<>> => ReturnedSuccess(t)
            /\ ReturnedSuccess(t) => Len(written[t]) = 1

\* ServeDNS wrote an answer whose own code is server failure and returned
\* (0, nil).
C19_Witness ==
    /\ SentToEngine(1)
    /\ ReturnedSuccess(1)
    /\ Len(written[1]) = 1
    /\ written[1][1].rcode = RcodeServerFailure

\* ---------------------------------------------------------------------- C20
\* The startup hooks of the instances of one process, run by the server in
\* any order, sharing the process-wide once and the two collectors.
Collectors == <<"RequestDuration", "RcodeCount">>

\* once.Do runs its function on the first call only.
OnceRuns(done) == ~done

\* setup for instance i: its server block has the prometheus handler or not,
\* and the startup hook is registered.
SetupInstance(i) ==
    \E s \in BOOLEAN :
        /\ stage[i] = "none"
        /\ stage' = [stage EXCEPT ![i] = "setup"]
        /\ sink' = [sink EXCEPT ![i] = s]
        /\ UNCHANGED <<onceDone, registered, confVars, taskVars>>

\* The startup hook of instance i: under the once, look up the prometheus
\* handler of the instance's server block and, when there is one, register
\* the two collectors with it.
Startup(i) ==
    /\ stage[i] = "setup"
    /\ stage' = [stage EXCEPT ![i] = "started"]
    /\ IF OnceRuns(onceDone)
       THEN /\ onceDone' = TRUE
            /\ registered' = IF sink[i] THEN registered \o Collectors ELSE registered
       ELSE UNCHANGED <<onceDone, registered>>
    /\ UNCHANGED <<sink, confVars, taskVars>>

NextStartup ==
    \E i \in Instances :
        \/ SetupInstance(i)
        \/ Startup(i)

SpecStartup == Init /\ [][NextStartup]_vars

\* How often collector c was given to MustRegister.
Registrations(c) == Cardinality({k \in 1..Len(registered) : registered[k] = c})

\* An instance has started in a server block that has the prometheus handler.
SomeStartedHasSink == \E i \in Instances : stage[i] = "started" /\ sink[i]

\* C20: each collector is registered at most once, and exactly once as soon
\* as some started instance's server block has the prometheus handler,
\* however many instances start and in whatever order.
C20_RegisteredExactlyOnce ==
    \A k \in 1..Len(Collectors) :
        /\ Registrations(Collectors[k]) <= 1
        /\ SomeStartedHasSink => Registrations(Collectors[k]) = 1

====
